---- MODULE Spec2Model ----
(***************************************************************************)
(* State-machine model of godojo's cmd/bootstrap.go: the bootstrap command *)
(* loop (bootstrapInstall), the acquisition dispatch (downloadDojo), the   *)
(* release acquirer (getDojoRelease, extractRelease) and the repository    *)
(* acquirer (getDojoSource).  One installer process runs at a time; after  *)
(* it halts the installer may be invoked again on the filesystem it left.  *)
(* SpecPy is the Python version check (validPython, checkPythonVersion) on *)
(* bounded interpreter outputs; SpecConc is two installers running         *)
(* getDojoRelease side by side on one install root.                        *)
(***************************************************************************)
EXTENDS Naturals, Sequences, FiniteSets

\* ------------------------------------------------------------------ bounds
MaxCmds == 2      \* longest resolved command list
MaxRuns == 2      \* invocations of the installer against one install root
MaxOut == 5       \* longest generated --version output, in characters

\* ------------------------------------------------------------------ state
VARIABLES
    distro,        \* targetOS.distro, a sequence of characters
    osid,          \* targetOS.id
    cmds,          \* the command table of the target: sequence of [hard: BOOLEAN]
    pullSource,    \* conf.Install.PullSource
    sourceInstall, \* conf.Install.SourceInstall
    sourceCommit,  \* conf.Install.SourceCommit, a sequence of characters
    sourceBranch,  \* conf.Install.SourceBranch, a sequence of characters
    faults,        \* may the environment (network, disk, packages) fail in this run
    fs,            \* the install root on disk
    pc,            \* position of the running installer
    run,           \* number of the current invocation
    family,        \* the case of the distro switch that was taken
    idx,           \* loop index i of the command loop
    executed,      \* commands handed to sendCmd in this run: [i, failed]
    err,           \* the error value returned by the acquirer
    resp,          \* the HTTP response: "nil", "open" or "closed" (its body)
    body,          \* what the response body carries: "none", "archive", "errpage"
    trace,         \* operations performed by this run, in order
    status,        \* exit status of the process once halted
    exitSite,      \* the function that called os.Exit, "none" if none did
    fsPre,         \* the install root as it was when downloadDojo was entered
    prev,          \* outcome of the previous invocation
    pyOut,         \* what the interpreter prints for --version, a sequence of characters
    pyPc,          \* position of the Python check
    pyOk,          \* what checkPythonVersion came to: "true", "false", "panic"
    pyStatus,      \* exit status of the process the Python check ended
    cpc,           \* concurrent installers: position of each in getDojoRelease
    csaw,          \* the tarball as each one's presence check found it
    cresp,         \* each one's HTTP response
    cbody,         \* what each one's response body carries
    cerr,          \* the error value each one returned
    ctrace         \* the operations each one performed, in order

cfg == <<distro, osid, cmds, pullSource, sourceInstall, sourceCommit, sourceBranch>>
proc == <<pc, family, idx, executed, err, resp, body, trace, status, exitSite, fsPre>>
py == <<pyOut, pyPc, pyOk, pyStatus>>
conc == <<cpc, csaw, cresp, cbody, cerr, ctrace>>
\* what a step of the installer run leaves alone besides its configuration
other == <<py, conc>>
vars == <<cfg, faults, fs, run, proc, prev, other>>

\* ------------------------------------------------------------------ strings
\* strings.ToLower on one character
LowerChar(ch) ==
    CASE ch = "U" -> "u" [] ch = "B" -> "b" [] ch = "N" -> "n" [] ch = "T" -> "t"
      [] ch = "R" -> "r" [] ch = "H" -> "h" [] ch = "E" -> "e" [] ch = "L" -> "l"
      [] ch = "D" -> "d" [] ch = "I" -> "i" [] ch = "A" -> "a" [] OTHER -> ch

\* strings.ToLower
ToLower(s) == [k \in DOMAIN s |-> LowerChar(s[k])]

ubuntu == <<"u", "b", "u", "n", "t", "u">>
rhel == <<"r", "h", "e", "l">>

\* distro strings the OS detection may hand to bootstrapInstall
Distros ==
    { ubuntu, <<"U", "b", "u", "n", "t", "u">>, <<"U", "B", "U", "N", "T", "U">>,
      rhel, <<"R", "H", "E", "L">>,
      <<"d", "e", "b", "i", "a", "n">>, <<"D", "e", "b", "i", "a", "n">>, <<>> }

\* target ids: one with an Ubuntu command table, one with a RHEL command
\* table, one with none
OsIds == {"ubuntu:22.04", "rhel:9", "other"}

\* configured commit hashes and branch names
Commits == { <<>>, <<"a", "b", "1">> }
Branches == { <<>>, <<"d", "e", "v">> }

\* command tables: non-empty sequences of commands, each Hard or Soft
RECURSIVE SeqsUpTo(_, _)
SeqsUpTo(S, n) ==
    IF n = 0 THEN { <<>> }
    ELSE LET shorter == SeqsUpTo(S, n - 1)
         IN  shorter \cup { Append(s, x) : s \in shorter, x \in S }

CmdTables == { s \in SeqsUpTo([hard : BOOLEAN], MaxCmds) : Len(s) > 0 }

\* ------------------------------------------------------------------ helpers
nil == "nil"

FreshFs(rootThere) ==
    [root |-> rootThere, tarball |-> "absent", verDir |-> "absent", srcDir |-> "absent"]

\* what the environment may do to a fallible call: fail only in a faulty run
MayFail == IF faults THEN BOOLEAN ELSE {FALSE}

Ev(e) == trace' = Append(trace, e)

Count(s, e) == Cardinality({k \in DOMAIN s : s[k] = e})

\* os.Exit(1)
Exit(site) ==
    /\ pc' = "halt"
    /\ status' = 1
    /\ exitSite' = site

\* the installers that run side by side on one install root
Procs == {"p1", "p2"}

\* the Python check is not part of the run
PyIdle ==
    /\ pyOut = <<>>
    /\ pyPc = "idle"
    /\ pyOk = "none"
    /\ pyStatus = 0

\* no installers run side by side
ConcIdle ==
    /\ cpc = [p \in Procs |-> "idle"]
    /\ csaw = [p \in Procs |-> "none"]
    /\ cresp = [p \in Procs |-> "nil"]
    /\ cbody = [p \in Procs |-> "none"]
    /\ cerr = [p \in Procs |-> nil]
    /\ ctrace = [p \in Procs |-> <<>>]

\* ------------------------------------------------------------------ Init
Init ==
    /\ PyIdle
    /\ ConcIdle
    /\ distro \in Distros
    /\ osid \in OsIds
    /\ cmds \in CmdTables
    /\ pullSource \in BOOLEAN
    /\ sourceInstall \in BOOLEAN
    /\ sourceCommit \in Commits
    /\ sourceBranch \in Branches
    /\ faults \in BOOLEAN
    /\ fs \in {FreshFs(FALSE), FreshFs(TRUE)}
    /\ pc = "boot_resolve"
    /\ run = 1
    /\ family = "none"
    /\ idx = 1
    /\ executed = <<>>
    /\ err = nil
    /\ resp = "nil"
    /\ body = "none"
    /\ trace = <<>>
    /\ status = 0
    /\ exitSite = "none"
    /\ fsPre = fs
    /\ prev = [status |-> 0, err |-> nil, acquirer |-> "none"]

\* ------------------------------------------------------------------ bootstrapInstall
\* distros.GetUbuntu: load the Ubuntu command tables; an error when the
\* family has none for the target id
GetUbuntu(id) == IF id = "ubuntu:22.04" THEN nil ELSE "NoCommandsForVersion"

\* distros.GetRHEL
GetRHEL(id) == IF id = "rhel:9" THEN nil ELSE "NoCommandsForVersion"

\* distros.CmdsForTarget: the command list of the target id in the loaded
\* package, an error value when the package holds none
CmdsForTarget(fam, id) ==
    IF \/ fam = "ubuntu" /\ GetUbuntu(id) = nil
       \/ fam = "rhel" /\ GetRHEL(id) = nil
    THEN [cmds |-> cmds, err |-> nil]
    ELSE [cmds |-> <<>>, err |-> "NoTarget"]

\* the switch comparing the distro string as it is, without strings.ToLower
DistroCaseExact(d) ==
    IF d = ubuntu THEN "ubuntu"
    ELSE IF d = rhel THEN "rhel"
    ELSE "default"

\* the switch on the distro family
DistroCase(d) ==
    IF ToLower(d) = ubuntu THEN "ubuntu"
    ELSE IF ToLower(d) = rhel THEN "rhel"
    ELSE "default"

\* lines 29-49: pick the distro's command package or exit
BootResolve ==
    /\ pc = "boot_resolve"
    /\ family' = DistroCase(distro)
    /\ IF family' = "ubuntu" /\ GetUbuntu(osid) = nil THEN
           /\ pc' = "boot_cmds"
           /\ UNCHANGED <<status, exitSite>>
       ELSE IF family' = "rhel" /\ GetRHEL(osid) = nil THEN
           /\ pc' = "boot_cmds"
           /\ UNCHANGED <<status, exitSite>>
       ELSE Exit("bootstrapInstall")
    /\ UNCHANGED <<cfg, other, faults, fs, run, idx, executed, err, resp, body, trace, fsPre, prev>>

\* lines 55-61: fetch the command list of the target or exit
BootCmds ==
    /\ pc = "boot_cmds"
    /\ IF CmdsForTarget(family, osid).err # nil
       THEN Exit("bootstrapInstall")
       ELSE /\ pc' = "boot_loop"
            /\ UNCHANGED <<status, exitSite>>
    /\ UNCHANGED <<cfg, other, faults, fs, run, family, idx, executed, err, resp, body, trace, fsPre, prev>>

\* sendCmd's verdict on a command that was run: "exit" when a Hard command
\* failed, "continue" otherwise
SendCmd(cmd, failed) == IF failed /\ cmd.hard THEN "exit" ELSE "continue"

\* the command loop leaving at the first failed command, whatever its severity
BootLoopBreakOnFailure ==
    /\ pc = "boot_loop"
    /\ idx <= Len(cmds)
    /\ \E failed \in MayFail :
        /\ executed' = Append(executed, [i |-> idx, failed |-> failed])
        /\ IF SendCmd(cmds[idx], failed) = "exit"
           THEN /\ Exit("sendCmd")
                /\ idx' = idx
           ELSE /\ idx' = IF failed THEN Len(cmds) + 1 ELSE idx + 1
                /\ UNCHANGED <<pc, status, exitSite>>
    /\ UNCHANGED <<cfg, other, faults, fs, run, family, err, resp, body, trace, fsPre, prev>>

\* lines 63-69: one iteration of the command loop
BootLoop ==
    /\ pc = "boot_loop"
    /\ idx <= Len(cmds)
    /\ \E failed \in MayFail :
        /\ executed' = Append(executed, [i |-> idx, failed |-> failed])
        /\ IF SendCmd(cmds[idx], failed) = "exit"
           THEN /\ Exit("sendCmd")
                /\ idx' = idx
           ELSE /\ idx' = idx + 1
                /\ UNCHANGED <<pc, status, exitSite>>
    /\ UNCHANGED <<cfg, other, faults, fs, run, family, err, resp, body, trace, fsPre, prev>>

\* the loop bound off by one: the loop may end before the last command
BootDoneEarly ==
    /\ pc = "boot_loop"
    /\ idx >= Len(cmds)
    /\ pc' = "dl_dispatch"
    /\ UNCHANGED <<cfg, other, faults, fs, run, family, idx, executed, err, resp, body, trace,
                   status, exitSite, fsPre, prev>>

\* lines 70-73: the loop is over, bootstrapInstall returns and the installer
\* goes on to downloadDojo
BootDone ==
    /\ pc = "boot_loop"
    /\ idx > Len(cmds)
    /\ pc' = "dl_dispatch"
    /\ UNCHANGED <<cfg, other, faults, fs, run, family, idx, executed, err, resp, body, trace,
                   status, exitSite, fsPre, prev>>

\* ------------------------------------------------------------------ downloadDojo
\* the dispatch with the PullSource test left out
DispatchIgnorePull(pull, src) ==
    IF src THEN "getDojoSource" ELSE "getDojoRelease"

\* the dispatch with the two branches of the SourceInstall test exchanged
DispatchSwapped(pull, src) ==
    IF pull THEN (IF src THEN "getDojoRelease" ELSE "getDojoSource") ELSE "skip"

\* lines 123-129, 134-138, 144-147: which acquirer, if any, is called
Dispatch(pull, src) ==
    IF pull THEN (IF src THEN "getDojoSource" ELSE "getDojoRelease") ELSE "skip"

DlDispatch ==
    /\ pc = "dl_dispatch"
    /\ fsPre' = fs
    /\ LET d == Dispatch(pullSource, sourceInstall) IN
       IF d = "getDojoSource" THEN
           /\ pc' = "src_mkdir"
           /\ trace' = trace \o <<"downloadDojo", "getDojoSource">>
           /\ UNCHANGED status
       ELSE IF d = "getDojoRelease" THEN
           /\ pc' = "rel_statroot"
           /\ trace' = trace \o <<"downloadDojo", "getDojoRelease">>
           /\ UNCHANGED status
       ELSE
           /\ pc' = "halt"
           /\ status' = 0
           /\ Ev("downloadDojo")
    /\ UNCHANGED <<cfg, other, faults, fs, run, family, idx, executed, err, resp, body,
                   exitSite, prev>>

\* the caller dropping the acquirer's error
AfterAcquirerIgnore(e) == "return"

\* lines 130-133 and 139-142: the acquirer has returned e
AfterAcquirer(e) == IF e # nil THEN "exit" ELSE "return"

DlCheck ==
    /\ pc = "dl_check"
    /\ IF AfterAcquirer(err) = "exit"
       THEN Exit("downloadDojo")
       ELSE /\ pc' = "halt"
            /\ status' = 0
            /\ UNCHANGED exitSite
    /\ UNCHANGED <<cfg, other, faults, fs, run, family, idx, executed, err, resp, body, trace,
                   fsPre, prev>>

\* ------------------------------------------------------------------ getDojoRelease
\* the close placed after the error checks: only a successful return closes
RelReturnNoCloseOnError(e, r) ==
    /\ err' = e
    /\ resp' = IF r = "open" /\ e = nil THEN "closed" ELSE r
    /\ \E closeFails \in (IF r = "open" /\ e = nil THEN MayFail ELSE {FALSE}) :
        IF closeFails
        THEN Exit("getDojoRelease")
        ELSE /\ pc' = "dl_check"
             /\ UNCHANGED <<status, exitSite>>

\* a return of getDojoRelease with error value e while the response is r:
\* lines 200-208, the deferred close of a non-nil response's body, which
\* exits the process when the close itself fails
RelReturn(e, r) ==
    /\ err' = e
    /\ resp' = IF r = "open" THEN "closed" ELSE r
    /\ \E closeFails \in (IF r = "open" THEN MayFail ELSE {FALSE}) :
        IF closeFails
        THEN Exit("getDojoRelease")
        ELSE /\ pc' = "dl_check"
             /\ UNCHANGED <<status, exitSite>>

\* lines 158-169: make sure the install root exists
RelStatRoot ==
    /\ pc = "rel_statroot"
    /\ IF fs.root THEN
           /\ pc' = "rel_stattar"
           /\ UNCHANGED <<fs, trace, err, resp, status, exitSite>>
       ELSE \E failed \in MayFail :
           IF failed THEN
               /\ RelReturn("mkdir", resp)
               /\ UNCHANGED <<fs, trace>>
           ELSE
               /\ fs' = [fs EXCEPT !.root = TRUE]
               /\ Ev("mkdir")
               /\ pc' = "rel_stattar"
               /\ UNCHANGED <<err, resp, status, exitSite>>
    /\ UNCHANGED <<cfg, other, faults, run, family, idx, executed, body, fsPre, prev>>

\* the presence check left out: every run downloads
TarballPresentNever(f) == FALSE

\* lines 177-179: is a file already at the tarball path
TarballPresent(f) == f.tarball # "absent"

\* lines 177-188: extract the tarball that is there, or go on to download
RelStatTar ==
    /\ pc = "rel_stattar"
    /\ IF TarballPresent(fs)
       THEN /\ pc' = "ext_open"
            /\ Ev("present")
       ELSE /\ pc' = "rel_get"
            /\ Ev("absent")
    /\ UNCHANGED <<cfg, other, faults, fs, run, family, idx, executed, err, resp, body,
                   status, exitSite, fsPre, prev>>

\* what ddClient.Get may come back with: the archive; and from a failing
\* network no response, a response together with an error, or a response
\* that carries an error page instead of the archive
GetOutcomes == IF faults THEN {"archive", "neterr", "resperr", "errpage"} ELSE {"archive"}

\* lines 190-216: the HTTP GET of the release
RelGet ==
    /\ pc = "rel_get"
    /\ Ev("get")
    /\ \E o \in GetOutcomes :
        IF o = "neterr" THEN
            /\ RelReturn("get", "nil")
            /\ UNCHANGED body
        ELSE IF o = "resperr" THEN
            /\ RelReturn("get", "open")
            /\ UNCHANGED body
        ELSE
            /\ resp' = "open"
            /\ body' = o
            /\ pc' = "rel_create"
            /\ UNCHANGED <<err, status, exitSite>>
    /\ UNCHANGED <<cfg, other, faults, fs, run, family, idx, executed, fsPre, prev>>

\* lines 218-224: os.Create leaves an empty file at the tarball path
RelCreate ==
    /\ pc = "rel_create"
    /\ \E failed \in MayFail :
        IF failed THEN
            /\ RelReturn("create", resp)
            /\ UNCHANGED <<fs, trace>>
        ELSE
            /\ fs' = [fs EXCEPT !.tarball = "partial"]
            /\ Ev("create")
            /\ pc' = "rel_copy"
            /\ UNCHANGED <<err, resp, status, exitSite>>
    /\ UNCHANGED <<cfg, other, faults, run, family, idx, executed, body, fsPre, prev>>

\* the copy error dropped: extraction goes on with what was written
RelCopyIgnoreError ==
    /\ pc = "rel_copy"
    /\ Ev("copy")
    /\ \E failed \in MayFail :
        /\ fs' = [fs EXCEPT !.tarball = IF failed THEN "partial"
                                        ELSE IF body = "archive" THEN "complete" ELSE "errpage"]
        /\ pc' = "ext_open"
        /\ UNCHANGED <<err, resp, status, exitSite>>
    /\ UNCHANGED <<cfg, other, faults, run, family, idx, executed, body, fsPre, prev>>

\* lines 226-232: io.Copy streams the body into the file; a failure leaves
\* what was written so far
RelCopy ==
    /\ pc = "rel_copy"
    /\ Ev("copy")
    /\ \E failed \in MayFail :
        IF failed THEN
            /\ RelReturn("copy", resp)
            /\ UNCHANGED fs
        ELSE
            /\ fs' = [fs EXCEPT !.tarball = IF body = "archive" THEN "complete" ELSE "errpage"]
            /\ pc' = "ext_open"
            /\ UNCHANGED <<err, resp, status, exitSite>>
    /\ UNCHANGED <<cfg, other, faults, run, family, idx, executed, body, fsPre, prev>>

\* ------------------------------------------------------------------ extractRelease
\* os.Open needs the file to be there
OpenOk(f) == f.tarball # "absent"

\* lines 249-253: os.Open of the tarball
ExtOpen ==
    /\ pc = "ext_open"
    /\ Ev("open")
    /\ \E failed \in MayFail :
        IF failed \/ ~OpenOk(fs)
        THEN RelReturn("open", resp)
        ELSE /\ pc' = "ext_untar"
             /\ UNCHANGED <<err, resp, status, exitSite>>
    /\ UNCHANGED <<cfg, other, faults, fs, run, family, idx, executed, body, fsPre, prev>>

\* untar: only a complete archive expands without error
UntarOk(f) == f.tarball = "complete"

\* the versioned directory untar may leave behind when it fails: what was
\* there, or the entries written before the failure
UntarLeaves(f) ==
    {f.verDir} \cup (IF f.verDir = "absent" /\ f.tarball # "errpage" THEN {"partial"} ELSE {})

\* lines 254-258: expand the tarball under the install root
ExtUntar ==
    /\ pc = "ext_untar"
    /\ Ev("untar")
    /\ \E failed \in MayFail :
        IF failed \/ ~UntarOk(fs) THEN
            /\ \E v \in UntarLeaves(fs) : fs' = [fs EXCEPT !.verDir = v]
            /\ RelReturn("untar", resp)
        ELSE
            /\ fs' = [fs EXCEPT !.verDir = "full"]
            /\ pc' = "ext_rename"
            /\ UNCHANGED <<err, resp, status, exitSite>>
    /\ UNCHANGED <<cfg, other, faults, run, family, idx, executed, body, fsPre, prev>>

\* os.Rename(oldPath, newPath) of a directory: oldPath must exist and newPath
\* must be absent or an empty directory
RenameOk(f) == f.verDir # "absent" /\ f.srcDir \in {"absent", "empty"}

\* lines 260-269: rename the versioned directory to the source directory;
\* getDojoRelease returns what extractRelease returned
ExtRename ==
    /\ pc = "ext_rename"
    /\ Ev("rename")
    /\ \E failed \in MayFail :
        IF failed \/ ~RenameOk(fs) THEN
            /\ RelReturn("rename", resp)
            /\ UNCHANGED fs
        ELSE
            /\ fs' = [fs EXCEPT !.srcDir = "release", !.verDir = "absent"]
            /\ RelReturn(nil, resp)
    /\ UNCHANGED <<cfg, other, faults, run, family, idx, executed, body, fsPre, prev>>

\* ------------------------------------------------------------------ getDojoSource
\* a return of getDojoSource with error value e
SrcReturn(e) ==
    /\ err' = e
    /\ pc' = "dl_check"

\* MkdirAll given the install root instead of the source path
SrcMkdirRootOnly ==
    /\ pc = "src_mkdir"
    /\ IF fs.srcDir # "absent" THEN
           /\ pc' = "src_select"
           /\ UNCHANGED <<fs, trace, err>>
       ELSE \E failed \in MayFail :
           IF failed THEN
               /\ SrcReturn("mkdir")
               /\ UNCHANGED <<fs, trace>>
           ELSE
               /\ fs' = [fs EXCEPT !.root = TRUE]
               /\ Ev("mkdir")
               /\ pc' = "src_select"
               /\ UNCHANGED err
    /\ UNCHANGED <<cfg, other, faults, run, family, idx, executed, resp, body, status,
                   exitSite, fsPre, prev>>

\* lines 280-292: make sure the source directory exists
SrcMkdir ==
    /\ pc = "src_mkdir"
    /\ IF fs.srcDir # "absent" THEN
           /\ pc' = "src_select"
           /\ UNCHANGED <<fs, trace, err>>
       ELSE \E failed \in MayFail :
           IF failed THEN
               /\ SrcReturn("mkdir")
               /\ UNCHANGED <<fs, trace>>
           ELSE
               /\ fs' = [fs EXCEPT !.root = TRUE, !.srcDir = "empty"]
               /\ Ev("mkdir")
               /\ pc' = "src_select"
               /\ UNCHANGED err
    /\ UNCHANGED <<cfg, other, faults, run, family, idx, executed, resp, body, status,
                   exitSite, fsPre, prev>>

\* the selector testing the branch before the commit
SelectorBranchFirst(commit, branch) ==
    IF Len(branch) > 0 THEN "branch"
    ELSE IF Len(commit) = 0 THEN "ambiguous"
    ELSE "commit"

\* the selector without the test for an empty branch
SelectorNoAmbiguous(commit, branch) ==
    IF Len(commit) > 0 THEN "commit" ELSE "branch"

\* lines 298 and 323: commit, branch or neither
Selector(commit, branch) ==
    IF Len(commit) > 0 THEN "commit"
    ELSE IF Len(branch) = 0 THEN "ambiguous"
    ELSE "branch"

\* lines 294-302 and 322-331: take the commit path, the branch path, or
\* return the configuration error
SrcSelect ==
    /\ pc = "src_select"
    /\ LET sel == Selector(sourceCommit, sourceBranch) IN
       IF sel = "commit" THEN
           /\ pc' = "src_clone"
           /\ UNCHANGED err
       ELSE IF sel = "ambiguous" THEN
           SrcReturn("ambiguous")
       ELSE
           /\ pc' = "src_branchclone"
           /\ UNCHANGED err
    /\ UNCHANGED <<cfg, other, faults, fs, run, family, idx, executed, resp, body, trace,
                   status, exitSite, fsPre, prev>>

\* git.PlainClone refuses a directory that already holds a repository
CloneOk(f) == f.srcDir \in {"absent", "empty"}

\* lines 303-309: full clone of the repository
SrcClone ==
    /\ pc = "src_clone"
    /\ Ev("clone")
    /\ \E failed \in MayFail :
        IF failed \/ ~CloneOk(fs) THEN
            /\ SrcReturn("clone")
            /\ UNCHANGED fs
        ELSE
            /\ fs' = [fs EXCEPT !.srcDir = "repo"]
            /\ pc' = "src_checkout"
            /\ UNCHANGED err
    /\ UNCHANGED <<cfg, other, faults, run, family, idx, executed, resp, body, status,
                   exitSite, fsPre, prev>>

\* the else of line 322 missing: the branch clone follows the commit checkout
SrcCheckoutThenBranch ==
    /\ pc = "src_checkout"
    /\ Ev("checkout")
    /\ \E failed \in MayFail :
        IF failed THEN
            /\ SrcReturn("checkout")
            /\ UNCHANGED fs
        ELSE
            /\ fs' = [fs EXCEPT !.srcDir = "commit"]
            /\ pc' = "src_branchclone"
            /\ UNCHANGED err
    /\ UNCHANGED <<cfg, other, faults, run, family, idx, executed, resp, body, status,
                   exitSite, fsPre, prev>>

\* a failed checkout removing the clone again
SrcCheckoutRollback ==
    /\ pc = "src_checkout"
    /\ Ev("checkout")
    /\ \E failed \in MayFail :
        IF failed THEN
            /\ SrcReturn("checkout")
            /\ fs' = [fs EXCEPT !.srcDir = "empty"]
        ELSE
            /\ fs' = [fs EXCEPT !.srcDir = "commit"]
            /\ SrcReturn(nil)
    /\ UNCHANGED <<cfg, other, faults, run, family, idx, executed, resp, body, status,
                   exitSite, fsPre, prev>>

\* lines 311-320 and 349-352: checkout of the configured commit
SrcCheckout ==
    /\ pc = "src_checkout"
    /\ Ev("checkout")
    /\ \E failed \in MayFail :
        IF failed THEN
            /\ SrcReturn("checkout")
            /\ UNCHANGED fs
        ELSE
            /\ fs' = [fs EXCEPT !.srcDir = "commit"]
            /\ SrcReturn(nil)
    /\ UNCHANGED <<cfg, other, faults, run, family, idx, executed, resp, body, status,
                   exitSite, fsPre, prev>>

\* lines 333-352: single-branch clone of refs/heads/<branch>
SrcBranchClone ==
    /\ pc = "src_branchclone"
    /\ Ev("branchclone")
    /\ \E failed \in MayFail :
        IF failed \/ ~CloneOk(fs) THEN
            /\ SrcReturn("branchclone")
            /\ UNCHANGED fs
        ELSE
            /\ fs' = [fs EXCEPT !.srcDir = "branch"]
            /\ SrcReturn(nil)
    /\ UNCHANGED <<cfg, other, faults, run, family, idx, executed, resp, body, status,
                   exitSite, fsPre, prev>>

\* ------------------------------------------------------------------ re-invocation
\* the acquirer a run called, from its trace
Acquirer(t) ==
    IF Count(t, "getDojoSource") > 0 THEN "getDojoSource"
    ELSE IF Count(t, "getDojoRelease") > 0 THEN "getDojoRelease"
    ELSE "none"

\* the installer is started again with the same configuration on the
\* filesystem the previous run left
Rerun ==
    /\ pc = "halt"
    /\ run < MaxRuns
    /\ run' = run + 1
    /\ prev' = [status |-> status, err |-> err, acquirer |-> Acquirer(trace)]
    /\ faults' \in BOOLEAN
    /\ pc' = "boot_resolve"
    /\ family' = "none"
    /\ idx' = 1
    /\ executed' = <<>>
    /\ err' = nil
    /\ resp' = "nil"
    /\ body' = "none"
    /\ trace' = <<>>
    /\ status' = 0
    /\ exitSite' = "none"
    /\ fsPre' = fs
    /\ UNCHANGED <<cfg, other, fs>>

Next ==
    \/ BootResolve \/ BootCmds \/ BootLoop \/ BootDone
    \/ DlDispatch \/ DlCheck
    \/ RelStatRoot \/ RelStatTar \/ RelGet \/ RelCreate \/ RelCopy
    \/ ExtOpen \/ ExtUntar \/ ExtRename
    \/ SrcMkdir \/ SrcSelect \/ SrcClone \/ SrcCheckout \/ SrcBranchClone
    \/ Rerun

Spec == Init /\ [][Next]_vars

\* ------------------------------------------------------------------ validPython
\* the installer run is not part of this specification
MainIdle ==
    /\ distro = ubuntu
    /\ osid = "ubuntu:22.04"
    /\ cmds = <<[hard |-> TRUE]>>
    /\ pullSource = FALSE
    /\ sourceInstall = FALSE
    /\ sourceCommit = <<>>
    /\ sourceBranch = <<>>
    /\ pc = "idle"
    /\ run = 1
    /\ family = "none"
    /\ idx = 1
    /\ executed = <<>>
    /\ err = nil
    /\ resp = "nil"
    /\ body = "none"
    /\ trace = <<>>
    /\ status = 0
    /\ exitSite = "none"
    /\ fsPre = fs
    /\ prev = [status |-> 0, err |-> nil, acquirer |-> "none"]

\* characters of the generated outputs
PyChars == {"P", " ", "3", ".", "1", "\n"}

\* outputs of real interpreters and of a build that prints no space
PyKnown ==
    { <<"P", "y", "t", "h", "o", "n", " ", "3", ".", "1", "1", ".", "4", "\n">>,
      <<"P", "y", "t", "h", "o", "n", " ", "3", ".", "1", "0", ".", "9", "\n">>,
      <<"P", "y", "t", "h", "o", "n", "3", ".", "1", "1", ".", "4", "\n">> }

\* what the interpreter may print
PyOutputs == SeqsUpTo(PyChars, MaxOut) \cup PyKnown

\* the part of s before the first occurrence of ch: element 0 of bytes.Split
RECURSIVE UpToFirst(_, _)
UpToFirst(s, ch) ==
    IF s = <<>> \/ Head(s) = ch THEN <<>>
    ELSE <<Head(s)>> \o UpToFirst(Tail(s), ch)

\* strings.Split(s, sep) for a one-character sep: the pieces between the
\* occurrences of sep, empty pieces included
RECURSIVE Split(_, _)
Split(s, sep) ==
    LET first == UpToFirst(s, sep) IN
    IF Len(first) = Len(s) THEN <<first>>
    ELSE <<first>> \o Split(SubSeq(s, Len(first) + 2, Len(s)), sep)

\* strings.HasPrefix
HasPrefix(s, pre) == Len(s) >= Len(pre) /\ SubSeq(s, 1, Len(pre)) = pre

\* lines 107-113: element 1 of the first line split at spaces, tested for the
\* prefix 3.11; indexing a split with one element panics
CheckPythonVersion(out) ==
    LET lines == Split(out, "\n")
        line == Split(lines[1], " ")
    IN  IF Len(line) < 2 THEN "panic"
        ELSE IF HasPrefix(line[2], <<"3", ".", "1", "1">>) THEN "true"
        ELSE "false"

InitPy ==
    /\ fs = FreshFs(FALSE)
    /\ MainIdle
    /\ ConcIdle
    /\ faults \in BOOLEAN
    /\ pyOut \in PyOutputs
    /\ pyPc = "lookpath"
    /\ pyOk = "none"
    /\ pyStatus = 0

\* lines 90-95: exec.LookPath("python3"), exit when there is none
PyLookPath ==
    /\ pyPc = "lookpath"
    /\ \E failed \in MayFail :
        IF failed
        THEN pyPc' = "done" /\ pyStatus' = 1
        ELSE pyPc' = "run" /\ UNCHANGED pyStatus
    /\ UNCHANGED <<cfg, faults, fs, run, proc, prev, conc, pyOut, pyOk>>

\* lines 97-105: run PyPath --version, exit when the command fails
PyRun ==
    /\ pyPc = "run"
    /\ \E failed \in MayFail :
        IF failed
        THEN pyPc' = "done" /\ pyStatus' = 1
        ELSE pyPc' = "parse" /\ UNCHANGED pyStatus
    /\ UNCHANGED <<cfg, faults, fs, run, proc, prev, conc, pyOut, pyOk>>

\* lines 76-86 and 107-113: parse the output; validPython goes on when the
\* check is true and exits with status 1 when it is false; a panic ends the
\* process with the status of the Go runtime, 2
PyParse ==
    /\ pyPc = "parse"
    /\ pyOk' = CheckPythonVersion(pyOut)
    /\ pyPc' = "done"
    /\ pyStatus' = IF pyOk' = "true" THEN 0 ELSE IF pyOk' = "false" THEN 1 ELSE 2
    /\ UNCHANGED <<cfg, faults, fs, run, proc, prev, conc, pyOut>>

NextPy == PyLookPath \/ PyRun \/ PyParse

SpecPy == InitPy /\ [][NextPy]_vars

\* strings.Fields: the maximal runs of characters that are not white space
RECURSIVE Fields(_)
Fields(s) ==
    IF s = <<>> THEN <<>>
    ELSE IF Head(s) \in {" ", "\n"} THEN Fields(Tail(s))
    ELSE LET tok == UpToFirst(UpToFirst(s, " "), "\n")
         IN  <<tok>> \o Fields(SubSeq(s, Len(tok) + 1, Len(s)))

\* the second white-space-separated token of the first line starts with 3.11
SecondTokenIs311(out) ==
    LET toks == Fields(UpToFirst(out, "\n"))
    IN  Len(toks) >= 2 /\ HasPrefix(toks[2], <<"3", ".", "1", "1">>)

\* C12 as stated: the output is accepted exactly when the second
\* white-space-separated token of its first line starts with 3.11, and every
\* other output, one without a second token included, makes
\* checkPythonVersion yield false and the installer exit with status 1.
C12_AcceptsExactlySecondToken311 ==
    (pyPc = "done" /\ pyOk # "none") =>
        IF SecondTokenIs311(pyOut)
        THEN pyOk = "true" /\ pyStatus = 0
        ELSE pyOk = "false" /\ pyStatus = 1

\* ------------------------------------------------------------------ concurrent installers
\* Two installers run getDojoRelease side by side on one install root.  Each
\* has its own position, response and error value; the filesystem is shared.
InitConc ==
    /\ fs \in {FreshFs(FALSE), FreshFs(TRUE)}
    /\ MainIdle
    /\ PyIdle
    /\ faults \in BOOLEAN
    /\ cpc = [p \in Procs |-> "rel_statroot"]
    /\ csaw = [p \in Procs |-> "none"]
    /\ cresp = [p \in Procs |-> "nil"]
    /\ cbody = [p \in Procs |-> "none"]
    /\ cerr = [p \in Procs |-> nil]
    /\ ctrace = [p \in Procs |-> <<>>]

CEv(p, e) == ctrace' = [ctrace EXCEPT ![p] = Append(@, e)]

CGoto(p, l) == cpc' = [cpc EXCEPT ![p] = l]

\* lines 200-208 for installer p: return e with the deferred close, or exit
\* in it
CRelReturn(p, e, r) ==
    /\ cerr' = [cerr EXCEPT ![p] = e]
    /\ cresp' = [cresp EXCEPT ![p] = IF r = "open" THEN "closed" ELSE r]
    /\ \E closeFails \in (IF r = "open" THEN MayFail ELSE {FALSE}) :
        CGoto(p, IF closeFails THEN "exited" ELSE "returned")

\* lines 158-169 for installer p
CRelStatRoot(p) ==
    /\ cpc[p] = "rel_statroot"
    /\ IF fs.root THEN
           /\ CGoto(p, "rel_stattar")
           /\ UNCHANGED <<fs, ctrace, cerr, cresp>>
       ELSE \E failed \in MayFail :
           IF failed THEN
               /\ CRelReturn(p, "mkdir", cresp[p])
               /\ UNCHANGED <<fs, ctrace>>
           ELSE
               /\ fs' = [fs EXCEPT !.root = TRUE]
               /\ CEv(p, "mkdir")
               /\ CGoto(p, "rel_stattar")
               /\ UNCHANGED <<cerr, cresp>>
    /\ UNCHANGED <<cfg, faults, run, proc, prev, py, csaw, cbody>>

\* the presence check held back while another installer is between its own
\* check and the end of its download
CRelStatTarLocked(p) ==
    /\ cpc[p] = "rel_stattar"
    /\ \A q \in Procs \ {p} : cpc[q] \notin {"rel_get", "rel_create", "rel_copy"}
    /\ csaw' = [csaw EXCEPT ![p] = fs.tarball]
    /\ IF TarballPresent(fs)
       THEN CGoto(p, "ext_open") /\ CEv(p, "present")
       ELSE CGoto(p, "rel_get") /\ CEv(p, "absent")
    /\ UNCHANGED <<cfg, faults, fs, run, proc, prev, py, cresp, cbody, cerr>>

\* lines 177-188 for installer p: nothing but the file decides
CRelStatTar(p) ==
    /\ cpc[p] = "rel_stattar"
    /\ csaw' = [csaw EXCEPT ![p] = fs.tarball]
    /\ IF TarballPresent(fs)
       THEN CGoto(p, "ext_open") /\ CEv(p, "present")
       ELSE CGoto(p, "rel_get") /\ CEv(p, "absent")
    /\ UNCHANGED <<cfg, faults, fs, run, proc, prev, py, cresp, cbody, cerr>>

\* lines 190-216 for installer p
CRelGet(p) ==
    /\ cpc[p] = "rel_get"
    /\ CEv(p, "get")
    /\ \E o \in GetOutcomes :
        IF o = "neterr" THEN
            /\ CRelReturn(p, "get", "nil")
            /\ UNCHANGED cbody
        ELSE IF o = "resperr" THEN
            /\ CRelReturn(p, "get", "open")
            /\ UNCHANGED cbody
        ELSE
            /\ cresp' = [cresp EXCEPT ![p] = "open"]
            /\ cbody' = [cbody EXCEPT ![p] = o]
            /\ CGoto(p, "rel_create")
            /\ UNCHANGED cerr
    /\ UNCHANGED <<cfg, faults, fs, run, proc, prev, py, csaw>>

\* lines 218-224 for installer p: os.Create truncates the file that is there
CRelCreate(p) ==
    /\ cpc[p] = "rel_create"
    /\ \E failed \in MayFail :
        IF failed THEN
            /\ CRelReturn(p, "create", cresp[p])
            /\ UNCHANGED <<fs, ctrace>>
        ELSE
            /\ fs' = [fs EXCEPT !.tarball = "partial"]
            /\ CEv(p, "create")
            /\ CGoto(p, "rel_copy")
            /\ UNCHANGED <<cerr, cresp>>
    /\ UNCHANGED <<cfg, faults, run, proc, prev, py, csaw, cbody>>

\* lines 226-232 for installer p
CRelCopy(p) ==
    /\ cpc[p] = "rel_copy"
    /\ CEv(p, "copy")
    /\ \E failed \in MayFail :
        IF failed THEN
            /\ CRelReturn(p, "copy", cresp[p])
            /\ UNCHANGED fs
        ELSE
            /\ fs' = [fs EXCEPT !.tarball = IF cbody[p] = "archive" THEN "complete" ELSE "errpage"]
            /\ CGoto(p, "ext_open")
            /\ UNCHANGED <<cerr, cresp>>
    /\ UNCHANGED <<cfg, faults, run, proc, prev, py, csaw, cbody>>

\* lines 249-253 for installer p
CExtOpen(p) ==
    /\ cpc[p] = "ext_open"
    /\ CEv(p, "open")
    /\ \E failed \in MayFail :
        IF failed \/ ~OpenOk(fs)
        THEN CRelReturn(p, "open", cresp[p])
        ELSE /\ CGoto(p, "ext_untar")
             /\ UNCHANGED <<cerr, cresp>>
    /\ UNCHANGED <<cfg, faults, fs, run, proc, prev, py, csaw, cbody>>

\* lines 254-258 for installer p
CExtUntar(p) ==
    /\ cpc[p] = "ext_untar"
    /\ CEv(p, "untar")
    /\ \E failed \in MayFail :
        IF failed \/ ~UntarOk(fs) THEN
            /\ \E v \in UntarLeaves(fs) : fs' = [fs EXCEPT !.verDir = v]
            /\ CRelReturn(p, "untar", cresp[p])
        ELSE
            /\ fs' = [fs EXCEPT !.verDir = "full"]
            /\ CGoto(p, "ext_rename")
            /\ UNCHANGED <<cerr, cresp>>
    /\ UNCHANGED <<cfg, faults, run, proc, prev, py, csaw, cbody>>

\* lines 260-269 for installer p
CExtRename(p) ==
    /\ cpc[p] = "ext_rename"
    /\ CEv(p, "rename")
    /\ \E failed \in MayFail :
        IF failed \/ ~RenameOk(fs) THEN
            /\ CRelReturn(p, "rename", cresp[p])
            /\ UNCHANGED fs
        ELSE
            /\ fs' = [fs EXCEPT !.srcDir = "release", !.verDir = "absent"]
            /\ CRelReturn(p, nil, cresp[p])
    /\ UNCHANGED <<cfg, faults, run, proc, prev, py, csaw, cbody>>

\* one step of installer p
CStep(p) ==
    \/ CRelStatRoot(p) \/ CRelStatTar(p) \/ CRelGet(p) \/ CRelCreate(p) \/ CRelCopy(p)
    \/ CExtOpen(p) \/ CExtUntar(p) \/ CExtRename(p)

NextConc == \E p \in Procs : CStep(p)

SpecConc == InitConc /\ [][NextConc]_vars

\* ------------------------------------------------------------------ properties
SrcCalled == Count(trace, "getDojoSource") > 0
RelCalled == Count(trace, "getDojoRelease") > 0

\* the acquirer that was called has returned to downloadDojo
Returned ==
    /\ Acquirer(trace) # "none"
    /\ \/ pc = "dl_check"
       \/ pc = "halt" /\ exitSite # "getDojoRelease"

\* a occurs in t and some later entry of t is b
Precedes(t, a, b) == \E i, j \in DOMAIN t : i < j /\ t[i] = a /\ t[j] = b

\* no call that goes to the network has been made or is about to be made
NoRepoNetwork ==
    /\ Count(trace, "clone") = 0
    /\ Count(trace, "checkout") = 0
    /\ Count(trace, "branchclone") = 0
    /\ pc \notin {"src_clone", "src_checkout", "src_branchclone"}

\* C1: with a non-empty sourceCommit, getDojoSource never performs the
\* single-branch clone, whatever sourceBranch is: once the source directory is
\* there the run goes to the full clone, a checkout only ever follows that
\* clone, and a successful return has checked the commit out.
C1_CommitPrecedence ==
    (SrcCalled /\ Len(sourceCommit) > 0) =>
        /\ pc # "src_branchclone"
        /\ Count(trace, "branchclone") = 0
        /\ (pc \notin {"src_mkdir", "src_select"} /\ ~(Returned /\ err = "mkdir"))
              => (pc = "src_clone" \/ Count(trace, "clone") = 1)
        /\ Count(trace, "checkout") > 0 => Precedes(trace, "clone", "checkout")
        /\ (Returned /\ err = nil) => Count(trace, "checkout") = 1

\* a run with both selectors set has returned success from the commit path
C1_Witness ==
    /\ Len(sourceCommit) > 0
    /\ Len(sourceBranch) > 0
    /\ pc = "halt"
    /\ status = 0
    /\ Precedes(trace, "clone", "checkout")
    /\ fs.srcDir = "commit"

\* C2 as stated: with sourceCommit and sourceBranch both empty, getDojoSource
\* returns the AmbiguousSourceSelector error and has made no network call.
C2_AmbiguousAlways ==
    (SrcCalled /\ Len(sourceCommit) = 0 /\ Len(sourceBranch) = 0) =>
        /\ NoRepoNetwork
        /\ Returned => err = "ambiguous"

\* C2 amended: with sourceCommit and sourceBranch both empty, getDojoSource
\* makes no network call and returns an error: the AmbiguousSourceSelector
\* error when the source directory exists or could be created, the
\* directory-creation error otherwise.
C2_AmbiguousUnlessMkdirFails ==
    (SrcCalled /\ Len(sourceCommit) = 0 /\ Len(sourceBranch) = 0) =>
        /\ NoRepoNetwork
        /\ Returned => err = (IF fs.srcDir = "absent" THEN "mkdir" ELSE "ambiguous")

\* a run with both selectors empty has ended on the configuration error
C2_Witness ==
    /\ Len(sourceCommit) = 0
    /\ Len(sourceBranch) = 0
    /\ pc = "halt"
    /\ err = "ambiguous"
    /\ exitSite = "downloadDojo"
    /\ trace = <<"downloadDojo", "getDojoSource", "mkdir">>

\* C3: a run of getDojoRelease that finds a file at the tarball path issues no
\* HTTP request, creates and writes no tarball, and its first operation after
\* the presence check is the opening of that file for extraction.
C3_NoDownloadWhenPresent ==
    (RelCalled /\ fsPre.tarball # "absent") =>
        /\ Count(trace, "get") = 0
        /\ Count(trace, "create") = 0
        /\ Count(trace, "copy") = 0
        /\ pc \notin {"rel_get", "rel_create", "rel_copy"}
        /\ pc \notin {"rel_statroot", "rel_stattar"}
              => /\ Len(trace) >= 3
                 /\ trace[3] = "present"
                 /\ (pc = "ext_open" \/ (Len(trace) >= 4 /\ trace[4] = "open"))

\* a run that found the tarball of an earlier run has extracted it
C3_Witness ==
    /\ RelCalled
    /\ fsPre.tarball = "complete"
    /\ fsPre.srcDir = "absent"
    /\ pc = "halt"
    /\ status = 0
    /\ fs.srcDir = "release"
    /\ Count(trace, "get") = 0

\* C4 as stated: a run of getDojoRelease that follows a successful one, with
\* the same configuration and nothing failing around it, returns success and
\* leaves the install root as it found it, the release tree in place once.
C4_RerunAfterSuccessIsNoOp ==
    (run > 1 /\ ~faults /\ prev.acquirer = "getDojoRelease" /\ prev.status = 0
       /\ RelCalled /\ pc = "halt") =>
        /\ status = 0
        /\ fs = fsPre
        /\ fs.srcDir = "release"
        /\ fs.verDir = "absent"

\* C5 as stated: a run of getDojoRelease that follows a failed one, with the
\* fault gone, completes successfully, and does so without a download when a
\* file is at the tarball path.
C5_RerunAfterFailureSucceeds ==
    (run > 1 /\ ~faults /\ prev.acquirer = "getDojoRelease" /\ prev.status = 1
       /\ RelCalled /\ pc = "halt") =>
        /\ status = 0
        /\ fs.srcDir = "release"
        /\ fsPre.tarball # "absent" => Count(trace, "get") = 0

\* the k-th executed command failed and is Hard (Soft)
HardFailure(k) == executed[k].failed /\ cmds[executed[k].i].hard
SoftFailure(k) == executed[k].failed /\ ~cmds[executed[k].i].hard

\* C6: a failed Hard command is the last command the run executes and the
\* process has exited with status 1 before anything else was done; a failed
\* Soft command that is not the last of the list is followed by the next
\* command of the list.
C6_HardHaltsSoftContinues ==
    \A k \in DOMAIN executed :
        /\ HardFailure(k) =>
              /\ k = Len(executed)
              /\ pc = "halt"
              /\ status = 1
              /\ trace = <<>>
        /\ (SoftFailure(k) /\ executed[k].i < Len(cmds)) =>
              IF k = Len(executed)
              THEN pc = "boot_loop" /\ idx = executed[k].i + 1
              ELSE executed[k + 1].i = executed[k].i + 1

\* a Soft failure was followed by the next command, whose Hard failure
\* ended the run
C6_Witness ==
    /\ Len(executed) = 2
    /\ SoftFailure(1)
    /\ HardFailure(2)
    /\ pc = "halt"

\* the spellings of the recognized families among the distro strings
UbuntuSpellings ==
    { <<"u", "b", "u", "n", "t", "u">>, <<"U", "b", "u", "n", "t", "u">>,
      <<"U", "B", "U", "N", "T", "U">> }
RhelSpellings == { <<"r", "h", "e", "l">>, <<"R", "H", "E", "L">> }

\* C7: for a distro string that is no spelling of a recognized family the
\* process exits with status 1 from bootstrapInstall without executing a
\* command; a string that differs from a recognized family only in letter
\* case takes that family's case of the switch and, given a target id the
\* family has commands for, goes on to the command loop.
C7_UnsupportedDistroExits ==
    (pc # "boot_resolve") =>
        /\ distro \notin (UbuntuSpellings \cup RhelSpellings) =>
              /\ pc = "halt"
              /\ status = 1
              /\ exitSite = "bootstrapInstall"
              /\ executed = <<>>
              /\ trace = <<>>
        /\ distro \in UbuntuSpellings =>
              /\ family = "ubuntu"
              /\ osid = "ubuntu:22.04" => exitSite # "bootstrapInstall"
        /\ distro \in RhelSpellings =>
              /\ family = "rhel"
              /\ osid = "rhel:9" => exitSite # "bootstrapInstall"

\* an upper-case spelling of a recognized family has had its commands run
C7_Witness ==
    /\ distro = <<"U", "B", "U", "N", "T", "U">>
    /\ family = "ubuntu"
    /\ Len(executed) = Len(cmds)
    /\ pc = "dl_dispatch"

\* C8: with pullSource false no acquirer is called and no download, clone or
\* filesystem operation is made; once downloadDojo has run the process has
\* ended normally with the install root as downloadDojo found it.
C8_NoPullSkipsAcquisition ==
    ~pullSource =>
        /\ Acquirer(trace) = "none"
        /\ \A k \in DOMAIN trace : trace[k] = "downloadDojo"
        /\ pc \in {"boot_resolve", "boot_cmds", "boot_loop", "dl_dispatch", "halt"}
        /\ Count(trace, "downloadDojo") > 0 =>
              /\ pc = "halt"
              /\ status = 0
              /\ exitSite = "none"
              /\ fs = fsPre

\* downloadDojo has run with pullSource false
C8_Witness ==
    /\ ~pullSource
    /\ trace = <<"downloadDojo">>
    /\ pc = "halt"

\* operations of the release acquirer and of the repository acquirer
RelOps == {"present", "absent", "get", "create", "copy", "open", "untar", "rename"}
SrcOps == {"clone", "checkout", "branchclone"}

\* C9: with pullSource true a run of downloadDojo calls exactly one acquirer,
\* getDojoSource exactly when sourceInstall is true and getDojoRelease exactly
\* when it is false, and performs operations of that acquirer alone.
C9_ExactlyOneAcquirer ==
    (pullSource /\ Count(trace, "downloadDojo") > 0) =>
        /\ Count(trace, "getDojoSource") + Count(trace, "getDojoRelease") = 1
        /\ SrcCalled <=> sourceInstall
        /\ RelCalled <=> ~sourceInstall
        /\ \A k \in DOMAIN trace :
              /\ trace[k] \in RelOps => ~sourceInstall
              /\ trace[k] \in SrcOps => sourceInstall

\* a source install has run the repository acquirer to the end
C9_Witness ==
    /\ pullSource
    /\ sourceInstall
    /\ SrcCalled
    /\ pc = "halt"
    /\ fs.srcDir = "branch"

\* C10: once an acquirer has returned an error to downloadDojo the only way
\* on is the exit with status 1, and a process that ended with status 0
\* after calling an acquirer got no error from it.
C10_AcquirerErrorIsFatal ==
    /\ (Returned /\ err # nil) =>
          \/ pc = "dl_check"
          \/ pc = "halt" /\ status = 1 /\ exitSite = "downloadDojo"
    /\ (Acquirer(trace) # "none" /\ pc = "halt" /\ status = 0) => err = nil

\* an extraction error has ended the process in downloadDojo
C10_Witness ==
    /\ pc = "halt"
    /\ err = "untar"
    /\ status = 1
    /\ exitSite = "downloadDojo"

\* C11 as stated: getDojoRelease and getDojoSource never end the process
\* themselves; whenever the process has exited after an acquirer was called,
\* the exit was made by downloadDojo on the error value the acquirer returned.
C11_AcquirersNeverExit ==
    (Acquirer(trace) # "none" /\ pc = "halt" /\ status = 1) =>
        /\ exitSite = "downloadDojo"
        /\ err # nil

\* C13: once getDojoRelease is left, by a return or by the exit of its deferred
\* close, a response that was not nil has had its body closed, whatever the
\* path: GET error, create error, copy error, extraction error or success.
C13_BodyClosedOnReturn ==
    /\ (RelCalled /\ pc \in {"dl_check", "halt"}) => resp # "open"
    /\ resp = "nil" => (Count(trace, "create") = 0 /\ Count(trace, "copy") = 0)

\* a GET that came back with a response and an error has been left with the
\* body closed
C13_Witness ==
    /\ RelCalled
    /\ pc = "halt"
    /\ err = "get"
    /\ resp = "closed"
    /\ exitSite = "downloadDojo"

\* C14: a successful getDojoSource has done exactly one of commit checkout
\* and branch checkout, and no run attempts the clone, the checkout or the
\* single-branch clone more than once, or both kinds of clone.
C14_ExactlyOneCheckoutNoRetry ==
    SrcCalled =>
        /\ Count(trace, "clone") <= 1
        /\ Count(trace, "checkout") <= 1
        /\ Count(trace, "branchclone") <= 1
        /\ Count(trace, "clone") + Count(trace, "branchclone") <= 1
        /\ (Returned /\ err = nil) =>
              Count(trace, "checkout") + Count(trace, "branchclone") = 1
        /\ (Returned /\ err # nil) =>
              Count(trace, "checkout") + Count(trace, "branchclone") <= 1

\* a run has failed at its only clone attempt
C14_Witness ==
    /\ SrcCalled
    /\ pc = "halt"
    /\ err = "clone"
    /\ Count(trace, "clone") = 1
    /\ Count(trace, "checkout") = 0

\* the operations of getDojoRelease in trace t, the directory creation aside
RelSteps(t) == SelectSeq(t, LAMBDA e : e \in RelOps)

\* the order of a download from nothing
DownloadOrder == <<"absent", "get", "create", "copy", "open", "untar", "rename">>

IsPrefix(s, t) == Len(s) <= Len(t) /\ \A k \in DOMAIN s : s[k] = t[k]

\* the last operation a run has reached when it returns error e
LastStepOf(e) == IF e = "create" THEN "get" ELSE e

\* C16: a release acquisition that starts without a tarball performs GET,
\* file creation, streaming, opening, extraction and rename in that order,
\* each at most once; a successful return has done every one of them exactly
\* once, a return with an error has done nothing after the step that
\* failed, and extraction starts only on a body that was streamed to the end.
C16_DownloadOrder ==
    (RelCalled /\ fsPre.tarball = "absent") =>
        /\ IsPrefix(RelSteps(trace), DownloadOrder)
        /\ (Returned /\ err = nil) => RelSteps(trace) = DownloadOrder
        /\ (Returned /\ err \notin {nil, "mkdir"}) =>
              RelSteps(trace)[Len(RelSteps(trace))] = LastStepOf(err)
        /\ (Returned /\ err = "mkdir") => RelSteps(trace) = <<>>
        /\ Count(trace, "rename") = 1 =>
              (fs.srcDir = "release" \/ err = "rename" \/ pc = "ext_rename")
        /\ Count(trace, "open") = 1 => fs.tarball \in {"complete", "errpage"}

\* a download from nothing has gone through every step and succeeded
C16_Witness ==
    /\ pullSource
    /\ ~sourceInstall
    /\ fsPre.tarball = "absent"
    /\ pc = "halt"
    /\ status = 0
    /\ RelSteps(trace) = DownloadOrder
    /\ fs.tarball = "complete"
    /\ fs.srcDir = "release"

\* C17: the commands are executed in list order, one after the other and none
\* twice: the k-th command executed is the k-th of the list; and when
\* bootstrapInstall has returned, every command of the list has been executed
\* exactly once.
C17_SequentialOnce ==
    /\ \A k \in DOMAIN executed : executed[k].i = k
    /\ Len(executed) <= Len(cmds)
    /\ pc = "boot_loop" => idx = Len(executed) + 1
    /\ (pc \notin {"boot_resolve", "boot_cmds", "boot_loop"}
          /\ exitSite \notin {"bootstrapInstall", "sendCmd"})
          => Len(executed) = Len(cmds)

\* bootstrapInstall has returned after two commands, the first of which
\* failed softly
C17_Witness ==
    /\ Len(cmds) = 2
    /\ Len(executed) = 2
    /\ executed[1].failed
    /\ pc = "dl_dispatch"

\* C18: a return of getDojoSource with the checkout error comes after one
\* successful clone and leaves the cloned repository in the source directory.
C18_CheckoutFailureKeepsClone ==
    (SrcCalled /\ Returned /\ err = "checkout") =>
        /\ fs.srcDir = "repo"
        /\ Precedes(trace, "clone", "checkout")
        /\ Count(trace, "clone") = 1

\* the checkout of the commit has failed after the clone
C18_Witness ==
    /\ Len(sourceCommit) > 0
    /\ pc = "halt"
    /\ err = "checkout"
    /\ fsPre.srcDir = "absent"
    /\ fs.srcDir = "repo"

\* C19 as stated: a getDojoRelease that returns an error leaves no new file at
\* the tarball path, and a file at the tarball path is always the complete
\* body of a successful download.
C19_NoPartialTarball ==
    /\ (RelCalled /\ Returned /\ err # nil /\ fsPre.tarball = "absent")
          => fs.tarball = "absent"
    /\ (pc \in {"dl_check", "halt"}) => fs.tarball \in {"absent", "complete"}

\* C20 as stated: a getDojoSource that returns the AmbiguousSourceSelector
\* error leaves the filesystem as it was before the call.
C20_AmbiguousLeavesFsUnchanged ==
    (SrcCalled /\ Returned /\ err = "ambiguous") => fs = fsPre

\* C20 amended: a getDojoSource that returns the AmbiguousSourceSelector error
\* has changed nothing but this: the source directory (and the install root
\* above it), when it did not exist, has been created and is empty.
C20_AmbiguousOnlyCreatesSourceDir ==
    (SrcCalled /\ Returned /\ err = "ambiguous") =>
        fs = IF fsPre.srcDir = "absent"
             THEN [fsPre EXCEPT !.root = TRUE, !.srcDir = "empty"]
             ELSE fsPre

\* the configuration error has been returned after the source directory was
\* created
C20_Witness ==
    /\ pc = "halt"
    /\ err = "ambiguous"
    /\ fsPre.srcDir = "absent"
    /\ fsPre.root = FALSE
    /\ fs.srcDir = "empty"
    /\ fs.root

\* installer p has left getDojoRelease
CDone(p) == cpc[p] \in {"returned", "exited"}

\* C15: nothing guards the install root: an installer that has not left
\* getDojoRelease can always take its next step, whatever the other one is
\* doing, and its presence check records the file alone.
C15_NoLockOnInstallRoot ==
    \A p \in Procs :
        /\ ~CDone(p) => ENABLED CStep(p)
        /\ csaw[p] = "absent" => Count(ctrace[p], "present") = 0

\* both installers found the tarball absent, both issued the GET and both
\* created the file at the tarball path
C15_Witness ==
    \A p \in Procs :
        /\ csaw[p] = "absent"
        /\ Count(ctrace[p], "get") = 1
        /\ Count(ctrace[p], "create") = 1

\* an installer found the other's unfinished tarball and extracted from it
C15_PartialTarballSeen ==
    \E p, q \in Procs :
        /\ p # q
        /\ csaw[p] = "partial"
        /\ Count(ctrace[p], "untar") = 1
        /\ Count(ctrace[p], "get") = 0
        /\ cpc[q] = "rel_copy"

====
